---- MODULE Spec2Model ----
(***************************************************************************)
(* Model of the TrustBroker client SDK: the request interceptor that       *)
(* stamps outbound broker calls, the signing helpers, and the consent      *)
(* poller.  The repository holds four revisions of the client; each is     *)
(* modelled and selected by the variable impl:                             *)
(*   "index_bypass"  src/src/index.ts 1-235    (Client-Id only, no poller) *)
(*   "index"         src/src/index.ts 237-375  (KeyObject keys, poller     *)
(*                                              with abort signal)         *)
(*   "part_001"      src/unnamed/part_001      (signs the body, no poller) *)
(*   "part_002"      src/unnamed/part_002      (client secret, #poller)    *)
(* The exported helpers (canonicalizeBody, signPayload, verifySignature in *)
(* src/src/lib/utilits.ts, part_000 and part_001) and the client's own     *)
(* sign and verify methods are applied to drawn payloads under HelperSpec. *)
(* Spec starts from a client nobody listens to; ObserverSpec also starts   *)
(* from an index.ts client with a 'statusChanged' listener registered.     *)
(***************************************************************************)
EXTENDS Integers, Sequences, FiniteSets, TLC

VARIABLES impl, processEnv, ctor, clientId, privateKey, listener, wire, calls, lastCall,
          hookRuns, pc, now, loopTime, start, interval, timeout, aborted, wakeAt,
          pending, log, starts, sleeps, events, abortInfo, result, fetches,
          pin, pout

vars == <<impl, processEnv, ctor, clientId, privateKey, listener, wire, calls, lastCall,
          hookRuns, pc, now, loopTime, start, interval, timeout, aborted, wakeAt,
          pending, log, starts, sleeps, events, abortInfo, result, fetches,
          pin, pout>>

clientVars == <<impl, processEnv, ctor, clientId, privateKey, listener>>
\* the inputs and the outputs of the signing helpers applied on their own
helperVars == <<pin, pout>>
pollVars == <<pc, now, loopTime, start, interval, timeout, aborted, wakeAt,
              pending, log, starts, sleeps, events, abortInfo, result, fetches>>

----------------------------------------------------------------------------
(* Bounds *)

MaxTimeout == 3
MaxInterval == 2
MaxSlack == 2

\* calls of the broker methods a caller has in flight at once
MaxInFlight == 2

MaxTime == MaxTimeout + MaxInterval + MaxSlack

\* no session issues this many queries: one per clock value below the
\* timeout, and one more after a timer that fired in the millisecond it was
\* armed in
MaxQueries == MaxTimeout + 2

----------------------------------------------------------------------------
(* Values *)

Undefined == "undefined"

Impls == {"index_bypass", "index", "part_001", "part_002"}
PollImpls == {"index", "part_002"}

RequestId == "req-1"

Max(a, b) == IF a >= b THEN a ELSE b

----------------------------------------------------------------------------
(* Asymmetric keys and the RSA-SHA256 primitive of node:crypto, idealised:  *)
(* a signature names the text and the private key that made it.            *)

PrivateKeyPems == {"PRIV_A", "PRIV_B"}
PublicKeyPems == {"PUB_A", "PUB_B"}

PublicOf(priv) ==
  CASE priv = "PRIV_A" -> "PUB_A"
    [] priv = "PRIV_B" -> "PUB_B"
    [] OTHER -> "no-public-key"

\* Buffer.from(s, "base64").toString("utf8")
Base64Decode(s) ==
  CASE s = "B64_PRIV_A" -> "PRIV_A"
    [] s = "B64_PRIV_B" -> "PRIV_B"
    [] s = "B64_PUB_A" -> "PUB_A"
    [] s = "B64_PUB_B" -> "PUB_B"
    [] s = "B64_not-a-key" -> "not-a-key"
    [] OTHER -> "garbled:" \o s

\* signer.sign(key, "base64") throws unless key parses as a private key
SignThrows(key) == key \notin PrivateKeyPems

cryptoSign(text, key) == [text |-> text, key |-> key]

cryptoVerify(text, signature, publicKeyPem) ==
  /\ signature.key \in PrivateKeyPems
  /\ PublicOf(signature.key) = publicKeyPem
  /\ signature.text = text

\* crypto.createPrivateKey / createPublicKey give a KeyObject or throw
KeyObject(type, pem) == [t |-> "KeyObject", type |-> type, pem |-> pem]

----------------------------------------------------------------------------
(* JSON payloads: tagged values; an object is the sequence of its          *)
(* <<key, value>> entries in insertion order.                              *)

Str(s) == [t |-> "str", v |-> s]
Num(n) == [t |-> "num", v |-> n]
Arr(items) == [t |-> "arr", v |-> items]
Obj(entries) == [t |-> "obj", v |-> entries]

\* a call without a body: config.data is undefined
NoBody == [t |-> "undefined", v |-> ""]

\* the property names of the modelled payloads, in the order of
\* Array.prototype.sort() (UTF-16 code units)
KeyOrder == <<"a", "a\":1,\"b", "b", "c", "d",
              "dataOwnerId", "expiresIn", "neededData", "ownerExternalId",
              "platformSignature", "providerId", "providerSignature",
              "requesterSignature", "schemaId">>

KeyRank(k) == CHOOSE i \in 1..Len(KeyOrder) : KeyOrder[i] = k

RECURSIVE InsertEntry(_, _)
InsertEntry(e, sorted) ==
  IF sorted = <<>> THEN <<e>>
  ELSE IF KeyRank(e[1]) < KeyRank(Head(sorted)[1])
       THEN <<e>> \o sorted
       ELSE <<Head(sorted)>> \o InsertEntry(e, Tail(sorted))

RECURSIVE SortEntries(_)
SortEntries(entries) ==
  IF entries = <<>> THEN <<>>
  ELSE InsertEntry(Head(entries), SortEntries(Tail(entries)))

RECURSIVE sortKeys(_)
sortKeys(obj) ==
  CASE obj.t = "arr" -> Arr([i \in 1..Len(obj.v) |-> sortKeys(obj.v[i])])
    [] obj.t = "obj" ->
         LET s == SortEntries(obj.v)
         IN Obj([i \in 1..Len(s) |-> <<s[i][1], sortKeys(s[i][2])>>])
    [] OTHER -> obj

RECURSIVE Join(_, _)
Join(parts, sep) ==
  IF parts = <<>> THEN ""
  ELSE IF Len(parts) = 1 THEN parts[1]
       ELSE parts[1] \o sep \o Join(Tail(parts), sep)

\* a modelled string cut at its characters that JSON escapes
Pieces(s) ==
  CASE s = "a\":1,\"b" -> <<"a", "\"", ":1,", "\"", "b">>
    [] s = "x\",\"b\":\"y" -> <<"x", "\"", ",", "\"", "b", "\"", ":", "\"", "y">>
    [] s = "{\"a\":1,\"b\":2,\"c\":3}" ->
         <<"{", "\"", "a", "\"", ":1,", "\"", "b", "\"", ":2,", "\"", "c", "\"", ":3}">>
    [] OTHER -> <<s>>

\* JSON.stringify of a string: the quotation mark and the reverse solidus are
\* escaped
EscapePiece(p) ==
  CASE p = "\"" -> "\\\""
    [] p = "\\" -> "\\\\"
    [] OTHER -> p

Quote(s) ==
  LET ps == Pieces(s)
  IN "\"" \o Join([i \in 1..Len(ps) |-> EscapePiece(ps[i])], "") \o "\""

RECURSIVE JsonStringify(_)
JsonStringify(x) ==
  CASE x.t = "str" -> Quote(x.v)
    [] x.t = "num" -> ToString(x.v)
    [] x.t = "arr" ->
         "[" \o Join([i \in 1..Len(x.v) |-> JsonStringify(x.v[i])], ",") \o "]"
    [] x.t = "obj" ->
         "{" \o Join([i \in 1..Len(x.v) |->
                        Quote(x.v[i][1]) \o ":" \o JsonStringify(x.v[i][2])], ",")
             \o "}"
    [] x.t = "KeyObject" -> "{}"

\* the properties written in insertion order, the sort left out
RECURSIVE canonicalizeBodyUnsorted(_)
canonicalizeBodyUnsorted(data) ==
  CASE data.t \in {"str", "num"} -> JsonStringify(data)
    [] data.t = "arr" ->
         "[" \o Join([i \in 1..Len(data.v) |-> canonicalizeBodyUnsorted(data.v[i])], ",")
             \o "]"
    [] data.t = "obj" ->
         "{" \o Join([i \in 1..Len(data.v) |->
                        "\"" \o data.v[i][1] \o "\":"
                          \o canonicalizeBodyUnsorted(data.v[i][2])], ",") \o "}"

\* canonicalizeBody of src/src/lib/utilits.ts 9-19: the property name goes
\* between quotation marks as it is, a string value through JSON.stringify
RECURSIVE canonicalizeBody(_)
canonicalizeBody(data) ==
  CASE data.t \in {"str", "num"} -> JsonStringify(data)
    [] data.t = "arr" ->
         "[" \o Join([i \in 1..Len(data.v) |-> canonicalizeBody(data.v[i])], ",") \o "]"
    [] data.t = "obj" ->
         LET sortedKeys == SortEntries(data.v)
         IN "{" \o Join([i \in 1..Len(sortedKeys) |->
                          "\"" \o sortedKeys[i][1] \o "\":"
                            \o canonicalizeBody(sortedKeys[i][2])], ",") \o "}"

\* the text signPayload / verifySignature feed to the primitive
\* (src/src/lib/utilits.ts and part_001: raw strings pass through)
SigningText(payload) ==
  IF payload.t = "str" THEN payload.v ELSE JsonStringify(sortKeys(payload))

\* signPayload(payload, privateKeyPem): the signature, or a throw
signPayload(payload, privateKeyPem) ==
  IF SignThrows(privateKeyPem)
  THEN [ok |-> FALSE, signature |-> cryptoSign("", "none")]
  ELSE [ok |-> TRUE, signature |-> cryptoSign(SigningText(payload), privateKeyPem)]

\* verifySignature(payload, signature, publicKeyPem) of src/src/lib/utilits.ts
verifySignature(payload, signature, publicKeyPem) ==
  cryptoVerify(SigningText(payload), signature, publicKeyPem)

----------------------------------------------------------------------------
(* Errors: every error class of lib/errors.ts has the constructor          *)
(* (message, status); TrustBrokerError of part_002 has the same shape.     *)

Err(name, message, status) == [name |-> name, message |-> message, status |-> status]

NoError == Err("none", "", Undefined)

InitializationError(message, status) == Err("InitializationError", message, status)
RequestError(message, status) == Err("RequestError", message, status)
TrustBrokerError(message, status) == Err("TrustBrokerError", message, status)
PlainError(message) == Err("Error", message, Undefined)

\* what node:crypto raises for text that is not a key
DecoderError == PlainError("error:1E08010C:DECODER routines::unsupported")

----------------------------------------------------------------------------
(* Construction.  env is what process.env (or, for part_002, the config    *)
(* object) holds: id = TB_CLIENT_ID / clientId, pub = TB_PUBLIC_KEY,       *)
(* priv = TB_PRIVATE_KEY / clientSecret.                                   *)

EnvIds(i) == IF i = "index" THEN {Undefined, "client-1", "PRIV_A"}
             ELSE {Undefined, "client-1"}
EnvPubs(i) == IF i = "index" THEN {Undefined, "PUB_A", "not-a-key"} ELSE {Undefined}
EnvPrivs(i) ==
  CASE i = "index_bypass" -> {Undefined}
    [] i = "index" -> {Undefined, "PRIV_A", "not-a-key"}
    [] i = "part_001" -> {Undefined, "B64_PRIV_A", "PRIV_A", "not-a-key"}
    [] i = "part_002" -> {Undefined, "s3cret"}

Envs(i) == [id : EnvIds(i), pub : EnvPubs(i), priv : EnvPrivs(i)]

Built(id, key) == [error |-> NoError, clientId |-> id, privateKey |-> key]
Failed(e) == [error |-> e, clientId |-> Undefined, privateKey |-> Undefined]

Construct(i, env) ==
  CASE i = "index_bypass" ->
         IF env.id = Undefined
         THEN Failed(InitializationError("Missing TB_CLIENT_ID in .env for bypass mode", Undefined))
         ELSE Built(env.id, Undefined)
    [] i = "index" ->
         IF env.id = Undefined \/ env.pub = Undefined \/ env.priv = Undefined
         THEN Failed(InitializationError("Missing credentials in .env", Undefined))
         ELSE IF env.pub \notin (PublicKeyPems \cup PrivateKeyPems) THEN Failed(DecoderError)
         ELSE IF env.priv \notin PrivateKeyPems THEN Failed(DecoderError)
         ELSE Built(env.id, KeyObject("private", env.priv))
    [] i = "part_001" ->
         IF env.id = Undefined \/ env.priv = Undefined
         THEN Failed(InitializationError("Missing credentials in .env", Undefined))
         ELSE Built(env.id, Base64Decode(env.priv))
    [] i = "part_002" ->
         IF env.id = Undefined \/ env.priv = Undefined
         THEN Failed(PlainError("TrustBrokerClient Error: clientId and clientSecret are required."))
         ELSE Built(env.id, env.priv)

----------------------------------------------------------------------------
(* The request interceptor (the static default headers for part_002).      *)

NoHeaders == [h \in {} |-> Undefined]

Config(method, url, data) ==
  [method |-> method, url |-> url, data |-> data, headers |-> NoHeaders]

NoRequest == Config("none", "", NoBody)

WithHeader(config, name, value) ==
  [config EXCEPT !.headers = (name :> value) @@ config.headers]

Pass(config) == [ok |-> TRUE, config |-> config]
Throw(config) == [ok |-> FALSE, config |-> config]

\* src/src/index.ts 79-86
InterceptBypass(config, id) == Pass(WithHeader(config, "Client-Id", id))

\* src/src/index.ts 296-304: signPayload(this.privateKey, this.clientId)
InterceptKeyObject(config, id, key) ==
  LET c1 == WithHeader(config, "Client-Id", id)
      s == signPayload(key, id)
  IN IF s.ok THEN Pass(WithHeader(c1, "Signature", s.signature)) ELSE Throw(c1)

\* the Client-Id header set only on the branch that signs a body
InterceptSigningIdWithBody(config, id, key) ==
  IF config.data.t # "undefined"
  THEN LET s == signPayload(config.data, key)
           c1 == WithHeader(config, "Client-Id", id)
       IN IF s.ok THEN Pass(WithHeader(c1, "Signature", s.signature)) ELSE Throw(c1)
  ELSE Pass(config)

\* src/unnamed/part_001 142-154
InterceptSigning(config, id, key) ==
  LET c1 == WithHeader(config, "Client-Id", id)
  IN IF config.data.t # "undefined"
     THEN LET s == signPayload(config.data, key)
          IN IF s.ok THEN Pass(WithHeader(c1, "Signature", s.signature)) ELSE Throw(c1)
     ELSE Pass(c1)

\* src/unnamed/part_002 71-78: no interceptor, default headers of the instance
DefaultHeaders(config, id, secret) ==
  Pass(WithHeader(WithHeader(WithHeader(config,
         "Content-Type", "application/json"), "x-client-id", id), "x-client-secret", secret))

\* this.http.interceptors.request.use(...) is called once by each constructor
\* that installs the hook; axios runs every registered handler once per request
InterceptorsRegistered(i) == IF i = "part_002" THEN 0 ELSE 1

Intercept(i, config, id, key) ==
  CASE i = "index_bypass" -> InterceptBypass(config, id)
    [] i = "index" -> InterceptKeyObject(config, id, key)
    [] i = "part_001" -> InterceptSigning(config, id, key)
    [] i = "part_002" -> DefaultHeaders(config, id, key)

----------------------------------------------------------------------------
(* What awaiting a transport call yields: a response with its data, an     *)
(* AxiosError with a response (4xx, 5xx), an AxiosError without one        *)
(* (connectivity), or the error the interceptor threw.                     *)

\* the body of a broker response, as far as the client reads it
Data(status, providerEndpoint, accessToken, failureReason) ==
  [status |-> status, providerEndpoint |-> providerEndpoint,
   accessToken |-> accessToken, failureReason |-> failureReason]

NoData == Data(Undefined, Undefined, Undefined, Undefined)

Response(data) ==
  [kind |-> "response", data |-> data, http |-> 200, errorField |-> Undefined,
   message |-> ""]
HttpError(code, errorField) ==
  [kind |-> "axios_response", data |-> NoData, http |-> code, errorField |-> errorField,
   message |-> "Request failed with status code " \o ToString(code)]
NetworkError ==
  [kind |-> "axios_network", data |-> NoData, http |-> 0, errorField |-> Undefined,
   message |-> "Network Error"]
InterceptorError ==
  [kind |-> "thrown", data |-> NoData, http |-> 0, errorField |-> Undefined,
   message |-> DecoderError.message]

TransportFailures ==
  {HttpError(404, "unknown request id"), HttpError(401, Undefined),
   HttpError(503, Undefined), HttpError(500, "internal"), NetworkError}

\* err.response.data?.error || err.message
ApiMessage(o) == IF o.errorField # Undefined THEN o.errorField ELSE o.message

\* handleApiError of index.ts 228-234 and 368-374, part_001 321-327
handleApiError(o, context) ==
  IF o.kind = "axios_response"
  THEN RequestError("API_ERROR", context \o ": " \o ApiMessage(o))
  ELSE RequestError("UNKNOWN", context \o ": " \o o.message)

\* #handleApiError of part_002 181-187
handleApiErrorSecret(o, contextMessage) ==
  IF o.kind = "axios_response"
  THEN PlainError(contextMessage \o ": "
         \o (IF o.errorField # Undefined THEN o.errorField
             ELSE "An unknown API error occurred")
         \o " (Status Code: " \o ToString(o.http) \o ")")
  ELSE PlainError(contextMessage \o ": " \o o.message)

----------------------------------------------------------------------------
(* Request bodies the client's methods build *)

\* createDataRequest: expiresIn 0 stands for an absent (or zero) expiresIn,
\* which `params.expiresIn || 3600` replaces
CreateDataRequestPayload(expiresIn) ==
  Obj(<< <<"providerId", Str("prov-1")>>, <<"dataOwnerId", Str("owner-1")>>,
         <<"schemaId", Str("salary_v1")>>,
         <<"expiresIn", Num(IF expiresIn = 0 THEN 3600 ELSE expiresIn)>> >>)

RequesterSignatureBody ==
  Obj(<< <<"providerId", Str("prov-1")>>, <<"providerSignature", Str("sig-p")>>,
         <<"platformSignature", Str("sig-b")>>, <<"requesterSignature", Str("sig-r")>> >>)

HasKey(entries, k) == \E i \in 1..Len(entries) : entries[i][1] = k
ValueOf(entries, k) == entries[CHOOSE i \in 1..Len(entries) : entries[i][1] = k][2]

\* the params object the caller hands to initiateRequest or requestData,
\* whatever the order its keys were inserted in
InitiateParams ==
  { Obj(<< <<"ownerExternalId", Str("owner-1")>>, <<"providerId", Str("prov-1")>>,
           <<"schemaId", Str("salary_v1")>>, <<"neededData", Arr(<<Str("net")>>)>> >>),
    Obj(<< <<"schemaId", Str("salary_v1")>>, <<"neededData", Arr(<<Str("net")>>)>>,
           <<"providerId", Str("prov-1")>>, <<"ownerExternalId", Str("owner-1")>> >>) }

ExpiresInInputs == {0, 60}

----------------------------------------------------------------------------
(* State after construction *)

\* the last broker method called: sent says whether its request left the
\* interceptor, failure is the kind of outcome the method's catch block received
NoCall == [op |-> "none", status |-> "none", error |-> NoError, sent |-> FALSE,
           failure |-> "none"]

\* no helper applied yet (src/src/lib/utilits.ts and its other revisions)
NoInput == [fn |-> "none", i |-> 0, j |-> 0, k1 |-> 1, k2 |-> 1,
            priv |-> Undefined, pub |-> Undefined, sig |-> "made"]
NoOutput == [a |-> "", b |-> "", signed |-> "none", verdict |-> "none"]

NoResult == [type |-> "none", providerEndpoint |-> Undefined,
             accessToken |-> Undefined, error |-> NoError]

\* the two fields of the success value exchanged
ReturnSwapped(endpoint, token) ==
  [type |-> "return", providerEndpoint |-> token, accessToken |-> endpoint,
   error |-> NoError]

Return(endpoint, token) ==
  [type |-> "return", providerEndpoint |-> endpoint, accessToken |-> token,
   error |-> NoError]
Raise(e) ==
  [type |-> "throw", providerEndpoint |-> Undefined, accessToken |-> Undefined,
   error |-> e]

NoAbort == [at |-> "never", queries |-> 0]

\* what the caller registered with client.on('statusChanged', ...): nothing,
\* a listener that returns, or one that throws (the client of index.ts is the
\* only EventEmitter that emits)
ListenerKinds(i) == IF i = "index" THEN {"none", "returns", "throws"} ELSE {"none"}

\* the state after construction, the listener being of one of the kinds given
InitWith(kinds) ==
  \E i \in Impls : \E e \in Envs(i) :
    LET c == Construct(i, e)
    IN \E l \in (IF c.error.name = "none" THEN ListenerKinds(i) \cap kinds ELSE {"none"}) :
       /\ impl = i
       /\ listener = l
       /\ processEnv = e
       /\ ctor = c.error
       /\ clientId = c.clientId
       /\ privateKey = c.privateKey
       /\ wire = NoRequest
       /\ calls = <<>>
       /\ lastCall = NoCall
       /\ hookRuns = 0
       /\ pin = NoInput
       /\ pout = NoOutput
       /\ pc = "idle"
       /\ now = 0
       /\ loopTime = 0
       /\ start = 0
       /\ interval = 0
       /\ timeout = 0
       /\ aborted = FALSE
       /\ wakeAt = 0
       /\ pending = "none"
       /\ log = <<>>
       /\ starts = <<>>
       /\ sleeps = <<>>
       /\ events = <<>>
       /\ abortInfo = NoAbort
       /\ result = NoResult
       /\ fetches = <<>>

\* no listener is registered
Init == InitWith({"none"})

\* the caller may have registered a listener, which returns or throws
ObserverInit == InitWith({"none", "returns", "throws"})

Constructed == ctor.name = "none"

----------------------------------------------------------------------------
(* The client's broker methods: one transport call through the interceptor, *)
(* the response returned or the failure handed to handleApiError.  A method *)
(* is suspended at its await: the call is made (Call), the interceptor runs *)
(* (Transmit) and the method returns or throws (Settle) in separate steps,  *)
(* and a caller may have several calls in flight.                           *)

ApiOk == Response(NoData)

ClassifyApiError(i, o, context) ==
  IF i = "part_002" THEN handleApiErrorSecret(o, context) ELSE handleApiError(o, context)

\* a call a method has made and is awaiting.  A call through this.http is
\* issued (handed to axios, whose request interceptors run in a later
\* microtask), then sent or rejected by the interceptor; a call through the
\* static axios.post (hooked FALSE) has no interceptor and is dispatched in
\* the synchronous part of its method
InFlight(op, context, config, hooked) ==
  [op |-> op, context |-> context, config |-> config, hooked |-> hooked,
   stage |-> IF hooked THEN "issued" ELSE "sent"]

\* the queued request that is next to pass the interceptors: microtasks run in
\* the order they were queued
NextIssued ==
  CHOOSE i \in 1..Len(calls) :
    /\ calls[i].stage = "issued"
    /\ \A j \in 1..(i - 1) : calls[j].stage # "issued"

AnyIssued == \E i \in 1..Len(calls) : calls[i].stage = "issued"

\* the synchronous part of a broker method, up to its `await this.http...`
Call(op, method, url, data, context) ==
  /\ Constructed
  /\ pc = "idle"
  /\ Len(calls) < MaxInFlight
  /\ calls' = Append(calls, InFlight(op, context, Config(method, url, data), TRUE))
  /\ UNCHANGED <<wire, lastCall, hookRuns>>
  /\ UNCHANGED clientVars
  /\ UNCHANGED helperVars
  /\ UNCHANGED pollVars

getRequestStatus ==
  /\ impl \in {"index_bypass", "part_001"}
  /\ Call("getRequestStatus", "GET", "/requests/" \o RequestId, NoBody, "getRequestStatus")

createDataRequest ==
  /\ impl \in {"index_bypass", "part_001"}
  /\ \E e \in ExpiresInInputs :
       Call("createDataRequest", "POST", "/requests", CreateDataRequestPayload(e),
            "createDataRequest")

submitRequesterSignature ==
  /\ impl \in {"index_bypass", "part_001"}
  /\ Call("submitRequesterSignature", "POST",
          "/requests/" \o RequestId \o "/requester-signature", RequesterSignatureBody,
          "submitRequesterSignature")

getMyInstitution ==
  /\ impl \in {"index_bypass", "part_001"}
  /\ Call("getMyInstitution", "GET", "/institution/me", NoBody, "getMyInstitution")

getInstitutionById ==
  /\ impl \in {"index_bypass", "part_001"}
  /\ Call("getInstitutionById", "GET", "/institution/" \o "inst-1", NoBody,
          "getInstitutionById")

getPublicKey ==
  /\ impl \in {"index_bypass", "part_001"}
  /\ Call("getPublicKey", "GET", "/system/public-key", NoBody, "getPublicKey")

\* part_001 260-270 and index.ts 180-184: the catch block of
\* requestDataFromProvider
ProviderError(o) ==
  IF o.kind = "axios_response"
  THEN RequestError("PROVIDER_ERROR", "requestDataFromProvider: " \o ApiMessage(o))
  ELSE RequestError("UNKNOWN", "requestDataFromProvider: " \o o.message)

\* part_001 234-272 and index.ts 162-186: axios.post to the provider, not
\* through this.http, so the interceptor does not run and the request is not
\* recorded
requestDataFromProvider ==
  /\ impl \in {"index_bypass", "part_001"}
  /\ Constructed
  /\ pc = "idle"
  /\ Len(calls) < MaxInFlight
  /\ calls' = Append(calls, InFlight("requestDataFromProvider",
                                     "requestDataFromProvider", NoRequest, FALSE))
  /\ UNCHANGED <<wire, lastCall, hookRuns>>
  /\ UNCHANGED clientVars
  /\ UNCHANGED helperVars
  /\ UNCHANGED pollVars

\* the body posted to /requests: index.ts 314 posts the caller's params
\* object as it is; requestData of part_002 (92-95) destructures the params
\* and builds the body anew, its four properties in a fixed order
InitiateBody(i, params) ==
  IF i = "part_002"
  THEN Obj(<< <<"ownerExternalId", ValueOf(params.v, "ownerExternalId")>>,
              <<"providerId", ValueOf(params.v, "providerId")>>,
              <<"schemaId", ValueOf(params.v, "schemaId")>>,
              <<"neededData", ValueOf(params.v, "neededData")>> >>)
  ELSE params

\* initiateRequest of index.ts 310-319
initiateRequest ==
  /\ impl = "index"
  /\ \E params \in InitiateParams :
       Call("initiateRequest", "POST", "/requests", InitiateBody(impl, params),
            "initiateRequest")

\* requestData of part_002 91-95 with #initiateRequest 109-111, up to
\* `await this.axiosInstance.post('/requests', body)`
requestData ==
  /\ impl = "part_002"
  /\ Constructed
  /\ pc = "idle"
  /\ Len(calls) < MaxInFlight
  /\ \E params \in InitiateParams :
       calls' = Append(calls, InFlight("initiateRequest", "Failed to initiate request",
                                       Config("POST", "/requests",
                                              InitiateBody(impl, params)),
                                       TRUE))
  /\ UNCHANGED <<wire, lastCall, hookRuns>>
  /\ UNCHANGED clientVars
  /\ UNCHANGED helperVars
  /\ UNCHANGED pollVars

----------------------------------------------------------------------------
(* The consent poller: pollForConsent of src/src/index.ts 324-352 and      *)
(* #pollForConsent of part_002 119-156.                                    *)

ApprovedEndpoint == "https://provider.example/data"
ApprovedToken == "tok-1"
FailureReason == "declined by owner"

PollResponses ==
  {Response(Data("APPROVED", e, t, Undefined)) :
      e \in {Undefined, ApprovedEndpoint}, t \in {Undefined, ApprovedToken}}
  \cup {Response(Data(st, Undefined, Undefined, f)) :
      st \in {"DENIED", "EXPIRED", "FAILED"}, f \in {Undefined, FailureReason}}
  \cup {Response(Data(st, Undefined, Undefined, Undefined)) :
      st \in {"AWAITING_CONSENT", "INITIATED", "REVOKED"}}

PollOutcomes == PollResponses \cup TransportFailures

TimeoutInputs == 0..MaxTimeout
IntervalInputs == 0..MaxInterval

\* the deadline itself still inside the loop
LoopConditionInclusive(t, st, to) == t - st <= to

\* while (Date.now() - start < timeout)
LoopCondition(t, st, to) == t - st < to

Continue == [next |-> "continue", result |-> NoResult]
Sleep == [next |-> "sleep", result |-> NoResult]
Done(r) == [next |-> "done", result |-> r]

\* index.ts 332-335 and 351: the loop test, then the abort check
TopIndex(t, st, to, ab) ==
  IF ~LoopCondition(t, st, to)
  THEN Done(Raise(RequestError("TIMED_OUT", "User consent polling timed out")))
  ELSE IF ab
       THEN Done(Raise(RequestError("ABORTED", "Polling aborted by signal")))
       ELSE Continue

\* part_002 126 and 155: the loop test alone
TopSecret(t, st, to) ==
  IF ~LoopCondition(t, st, to)
  THEN Done(Raise(TrustBrokerError("Request timed out while waiting for user consent.",
                                   "TIMED_OUT")))
  ELSE Continue

\* index.ts 345-348: the catch block (a RequestError thrown inside the try block
\* is rethrown as it is, see BodyIndex)
OnFailureIndex(o) == Done(Raise(handleApiError(o, "pollForConsent")))

\* the abort signal looked at again when the query has been answered, before
\* the answer is read (no listener registered)
BodyIndexAbortFirst(o) ==
  IF aborted
  THEN Done(Raise(RequestError("ABORTED", "Polling aborted by signal")))
  ELSE IF o.kind = "response"
       THEN IF o.data.status = "APPROVED"
            THEN Done(Return(o.data.providerEndpoint, o.data.accessToken))
            ELSE IF o.data.status \in {"DENIED", "FAILED", "EXPIRED"}
                 THEN Done(Raise(RequestError(o.data.status,
                            IF o.data.failureReason # Undefined
                            THEN o.data.failureReason ELSE o.data.status)))
                 ELSE Sleep
       ELSE OnFailureIndex(o)

\* what a throwing listener makes this.emit(...) of index.ts 338 throw
ListenerError ==
  [kind |-> "thrown", data |-> NoData, http |-> 0, errorField |-> Undefined,
   message |-> "listener failed"]

\* index.ts 336-349: what the iteration does with the awaited outcome, the
\* registered listener being l: emit runs the listener inside the try block,
\* before the status is read
BodyIndexWith(l, o) ==
  IF o.kind = "response"
  THEN IF l = "throws"
       THEN OnFailureIndex(ListenerError)
       ELSE IF o.data.status = "APPROVED"
            THEN Done(Return(o.data.providerEndpoint, o.data.accessToken))
            ELSE IF o.data.status \in {"DENIED", "FAILED", "EXPIRED"}
                 THEN Done(Raise(RequestError(o.data.status,
                            IF o.data.failureReason # Undefined
                            THEN o.data.failureReason ELSE o.data.status)))
                 ELSE Sleep
  ELSE OnFailureIndex(o)

BodyIndex(o) == BodyIndexWith(listener, o)

\* every status that is neither in-flight nor terminal-negative taken for an
\* approval
BodySecretDefaultApproved(o) ==
  IF o.kind = "response"
  THEN CASE o.data.status \in {"AWAITING_CONSENT", "INITIATED"} -> Sleep
         [] o.data.status \in {"DENIED", "EXPIRED", "FAILED"} ->
              Done(Raise(TrustBrokerError(
                     IF o.data.failureReason # Undefined THEN o.data.failureReason
                     ELSE "Request failed with status: " \o o.data.status,
                     o.data.status)))
         [] OTHER -> Done(Return(o.data.providerEndpoint, o.data.accessToken))
  ELSE Done(Raise(handleApiErrorSecret(o, "Failed while polling for consent")))

\* part_002 127-152
BodySecret(o) ==
  IF o.kind = "response"
  THEN CASE o.data.status = "APPROVED" ->
              IF o.data.providerEndpoint = Undefined \/ o.data.accessToken = Undefined
              THEN Done(Raise(TrustBrokerError(
                     "Server approved request but did not provide token or endpoint.",
                     "INVALID_RESPONSE")))
              ELSE Done(Return(o.data.providerEndpoint, o.data.accessToken))
         [] o.data.status \in {"AWAITING_CONSENT", "INITIATED"} -> Sleep
         [] o.data.status \in {"DENIED", "EXPIRED", "FAILED"} ->
              Done(Raise(TrustBrokerError(
                     IF o.data.failureReason # Undefined THEN o.data.failureReason
                     ELSE "Request failed with status: " \o o.data.status,
                     o.data.status)))
         [] OTHER ->
              Done(Raise(TrustBrokerError(
                     "Received unknown request status: " \o o.data.status, o.data.status)))
  ELSE Done(Raise(handleApiErrorSecret(o, "Failed while polling for consent")))

Top(i, t, st, to, ab) == IF i = "index" THEN TopIndex(t, st, to, ab) ELSE TopSecret(t, st, to)
Body(i, o) == IF i = "index" THEN BodyIndex(o) ELSE BodySecret(o)

\* this.emit('statusChanged', {requestId, status}) of index.ts 338
Emitted(i, o, ev) ==
  IF i = "index" /\ o.kind = "response"
  THEN Append(ev, [name |-> "statusChanged", requestId |-> RequestId,
                   status |-> o.data.status, endpoint |-> Undefined])
  ELSE ev

\* the promise of delay() not awaited: the loop goes on at once
TimerDueAtOnce(t, ms) == t

\* delay(ms): setTimeout(res, ms), armed at the event loop's time t; Node runs
\* a timer of less than 1 ms as 1 ms.  The event loop times its timers on its
\* own millisecond clock (loopTime), whose milliseconds do not begin with
\* those of Date.now(), so the loop test after a sleep can read ms - 1 elapsed
TimerDue(t, ms) == t + Max(ms, 1)

\* the top of one loop iteration, reached without suspension from the start of
\* the call or from the end of a sleep: leave the loop, or call this.http.get,
\* which queues the status GET (the interceptor runs in a later microtask)
LoopTop(st, to, ab) ==
  LET top == Top(impl, now, st, to, ab)
  IN IF top.next = "done"
     THEN /\ pc' = "done"
          /\ result' = top.result
          /\ UNCHANGED pending
     ELSE /\ pc' = "inflight"
          /\ result' = NoResult
          /\ pending' = "issued"

\* pollForConsent of index.ts is a method of its own: the caller calls it with
\* the requestId its initiateRequest call has just returned, no other call
\* of the caller in flight: `const start = Date.now()` (index.ts 330); the
\* loop test reads the clock again
PollStart ==
  /\ Constructed
  /\ impl = "index"
  /\ pc = "idle"
  /\ calls = <<>>
  /\ lastCall.op = "initiateRequest"
  /\ lastCall.status = "returned"
  /\ \E iv \in IntervalInputs, to \in TimeoutInputs, ab \in BOOLEAN :
       /\ interval' = iv
       /\ timeout' = to
       /\ aborted' = ab
       /\ abortInfo' = IF ab THEN [at |-> "before", queries |-> 0] ELSE NoAbort
  /\ start' = now
  /\ pc' = "started"
  /\ UNCHANGED <<now, loopTime, wakeAt, pending, log, starts, sleeps, events, result,
                 fetches, wire, calls, lastCall, hookRuns>>
  /\ UNCHANGED clientVars
  /\ UNCHANGED helperVars

\* the first loop test, in the same synchronous run as the start of the
\* session (PollStart, InitiationAccepted): the clock
\* may have moved on to the next millisecond since start was read
PollEnter ==
  /\ pc = "started"
  /\ LoopTop(start, timeout, aborted)
  /\ UNCHANGED <<now, loopTime, start, interval, timeout, aborted, abortInfo, wakeAt, log,
                 starts, sleeps, events, fetches, wire, calls, lastCall, hookRuns>>
  /\ UNCHANGED clientVars
  /\ UNCHANGED helperVars

\* the interceptor runs on the queued status GET, after those of the requests
\* queued before it, which then is on the wire or rejected; starts records the clock reading of the loop test that issued
\* it (the clock is not advanced between the two)
QuerySend ==
  /\ pc = "inflight"
  /\ pending = "issued"
  /\ ~AnyIssued
  /\ LET r == Intercept(impl, Config("GET", "/requests/" \o RequestId \o "/token", NoBody),
                        clientId, privateKey)
     IN /\ pending' = IF r.ok THEN "sent" ELSE "rejected"
        /\ wire' = IF r.ok THEN r.config ELSE wire
        /\ starts' = IF r.ok THEN Append(starts, now) ELSE starts
        /\ hookRuns' = InterceptorsRegistered(impl)
  /\ UNCHANGED <<pc, now, loopTime, start, interval, timeout, aborted, abortInfo, wakeAt,
                 log, sleeps, events, result, fetches, calls, lastCall>>
  /\ UNCHANGED clientVars
  /\ UNCHANGED helperVars

\* step 3 run whichever way the poll ended
StepThreeAlways(r) == TRUE

\* step 3 of requestData (part_002 98-101) runs in the continuation of
\* #pollForConsent: `await` hands a rejection to the caller of requestData
\* and the statements after it do not run
StepThree(r) == r.type = "return"

\* the arguments of the call at part_002 101
FetchArguments(r) == [endpoint |-> r.providerEndpoint, token |-> r.accessToken]

\* the awaited status GET settles and the rest of the iteration runs; when
\* #pollForConsent of part_002 returns, requestData goes on to call
\* #fetchFromProvider in the same run, up to its `await axios.post`
QueryDone ==
  /\ pc = "inflight"
  /\ pending \in {"sent", "rejected"}
  /\ Len(log) < MaxQueries
  /\ \E o \in (IF pending = "sent" THEN PollOutcomes ELSE {InterceptorError}) :
       LET b == Body(impl, o)
       IN /\ log' = Append(log, o)
          /\ events' = Emitted(impl, o, events)
          /\ IF b.next = "done"
             THEN /\ pc' = "done"
                  /\ result' = b.result
                  /\ UNCHANGED <<wakeAt, sleeps>>
                  /\ IF impl = "part_002" /\ StepThree(b.result)
                     THEN /\ fetches' = Append(fetches, FetchArguments(b.result))
                          /\ calls' = Append(calls, InFlight("fetchFromProvider",
                                                             "fetchFromProvider",
                                                             NoRequest, FALSE))
                     ELSE UNCHANGED <<fetches, calls>>
             ELSE /\ pc' = "sleeping"
                  /\ result' = NoResult
                  /\ wakeAt' = TimerDue(loopTime, interval)
                  /\ sleeps' = Append(sleeps, interval)
                  /\ UNCHANGED <<fetches, calls>>
  /\ pending' = "none"
  /\ UNCHANGED <<now, loopTime, start, interval, timeout, aborted, abortInfo, starts, wire,
                 lastCall, hookRuns>>
  /\ UNCHANGED clientVars
  /\ UNCHANGED helperVars

\* the promise of delay() never resolved: no timer callback runs
DelayNeverResolves == pc = "sleeping" /\ FALSE /\ UNCHANGED vars

\* the timer fires and the loop test runs
SleepDone ==
  /\ pc = "sleeping"
  /\ loopTime >= wakeAt
  /\ LoopTop(start, timeout, aborted)
  /\ UNCHANGED <<now, loopTime, start, interval, timeout, aborted, abortInfo, wakeAt, log,
                 starts, sleeps, events, wire, calls, lastCall, hookRuns>>
  /\ UNCHANGED clientVars
  /\ UNCHANGED helperVars
  /\ UNCHANGED fetches

\* time passes during a call: the event loop's clock and Date.now() enter
\* their next millisecond in turn (the model stops the clocks at MaxTime, or
\* at the moment a pending timer is due if that is later)
Tick ==
  /\ \/ pc \in {"started", "sleeping"}
     \/ pc = "inflight" /\ pending # "issued"
  /\ now < MaxTime \/ (pc = "sleeping" /\ loopTime < wakeAt)
  /\ IF loopTime = now
     THEN loopTime' = loopTime + 1 /\ now' = now
     ELSE now' = now + 1 /\ loopTime' = loopTime
  /\ UNCHANGED <<pc, start, interval, timeout, aborted, wakeAt, pending, log, starts,
                 sleeps, events, abortInfo, result, wire, calls, lastCall, hookRuns>>
  /\ UNCHANGED clientVars
  /\ UNCHANGED helperVars
  /\ UNCHANGED fetches

\* the caller's AbortController fires while the call is suspended at an
\* await: during a sleep, while the status GET is on the wire, or, in the
\* synchronous run that called this.http.get, while the GET is still queued
\* (at says which, queries how many status queries had been sent)
Abort ==
  /\ impl = "index"
  /\ pc \in {"inflight", "sleeping"}
  /\ ~aborted
  /\ aborted' = TRUE
  /\ abortInfo' = [at |-> IF pc = "inflight" /\ pending = "issued" THEN "issued" ELSE pc,
                   queries |-> Len(starts)]
  /\ UNCHANGED <<pc, now, loopTime, start, interval, timeout, wakeAt, pending, log, starts,
                 sleeps, events, result, wire, calls, lastCall, hookRuns>>
  /\ UNCHANGED clientVars
  /\ UNCHANGED helperVars
  /\ UNCHANGED fetches

\* index.ts 363-364 and part_002 173-176: the catch block of the fetch
FetchError(i, o, endpoint) ==
  IF i = "index"
  THEN RequestError("FETCH_FAILED",
         "Fetch error " \o (IF o.kind = "axios_response" THEN ToString(o.http) ELSE ""))
  ELSE PlainError("Failed to fetch data from provider at " \o endpoint \o ". Status: "
         \o (IF o.kind = "axios_response" THEN ToString(o.http) ELSE "undefined"))

\* fetchFromProvider of index.ts 357-366, called by the caller with the
\* endpoint and the token pollForConsent returned, up to its `await axios.post`
fetchFromProvider ==
  /\ impl = "index"
  /\ pc = "done"
  /\ result.type = "return"
  /\ fetches = <<>>
  /\ Len(calls) < MaxInFlight
  /\ fetches' = Append(fetches, [endpoint |-> result.providerEndpoint,
                                 token |-> result.accessToken])
  /\ calls' = Append(calls, InFlight("fetchFromProvider", "fetchFromProvider",
                                     NoRequest, FALSE))
  /\ UNCHANGED <<pc, now, loopTime, start, interval, timeout, aborted, wakeAt, pending, log,
                 starts, sleeps, events, abortInfo, result, wire, lastCall, hookRuns>>
  /\ UNCHANGED clientVars
  /\ UNCHANGED helperVars

\* the interceptor runs on a queued request of a broker method, which then is
\* on the wire or rejected
Transmit ==
  /\ AnyIssued
  /\ LET i == NextIssued
         c == calls[i]
         r == Intercept(impl, c.config, clientId, privateKey)
     IN /\ wire' = IF r.ok THEN r.config ELSE wire
        /\ hookRuns' = InterceptorsRegistered(impl)
        /\ calls' = [calls EXCEPT ![i].stage = IF r.ok THEN "sent" ELSE "rejected"]
  /\ UNCHANGED lastCall
  /\ UNCHANGED clientVars
  /\ UNCHANGED helperVars
  /\ UNCHANGED pollVars

\* what the awaited request of a call in flight can yield; without an
\* endpoint nothing answers the fetch
Outcomes(c) ==
  CASE c.stage = "rejected" -> {InterceptorError}
    [] c.op = "fetchFromProvider" /\ fetches[1].endpoint = Undefined -> {NetworkError}
    [] OTHER -> {ApiOk} \cup TransportFailures

\* the catch block of the method that made the call
MethodError(c, o) ==
  CASE c.op = "requestDataFromProvider" -> ProviderError(o)
    [] c.op = "fetchFromProvider" -> FetchError(impl, o, fetches[1].endpoint)
    [] OTHER -> ClassifyApiError(impl, o, c.context)

Without(seq, i) == SubSeq(seq, 1, i - 1) \o SubSeq(seq, i + 1, Len(seq))

\* the call is step 1 of a requestData of part_002
StepOne(c) == impl = "part_002" /\ c.op = "initiateRequest"

Returned(c) ==
  [op |-> c.op, status |-> "returned", error |-> NoError, sent |-> c.stage = "sent",
   failure |-> "none"]
Threw(c, o) ==
  [op |-> c.op, status |-> "threw", error |-> MethodError(c, o),
   sent |-> c.stage = "sent", failure |-> o.kind]

\* the awaited request of one call in flight settles, in whatever order the
\* answers arrive and whether or not a call made later still waits for its
\* interceptor, and the method returns or throws (index.ts 360-361: a
\* fetch that succeeded emits 'completed'); a requestData whose initiation
\* failed ends here, the error handed to its caller
Settle ==
  /\ \E i \in 1..Len(calls) :
       LET c == calls[i]
       IN \E o \in Outcomes(c) :
            /\ c.stage # "issued"
            /\ ~(StepOne(c) /\ o.kind = "response")
            /\ lastCall' = IF o.kind = "response" THEN Returned(c) ELSE Threw(c, o)
            /\ events' = IF /\ impl = "index"
                            /\ c.op = "fetchFromProvider"
                            /\ o.kind = "response"
                         THEN Append(events, [name |-> "completed",
                                              requestId |-> Undefined,
                                              status |-> Undefined,
                                              endpoint |-> fetches[1].endpoint])
                         ELSE events
            /\ calls' = Without(calls, i)
  /\ UNCHANGED <<pc, now, loopTime, start, interval, timeout, aborted, wakeAt, pending, log,
                 starts, sleeps, abortInfo, result, fetches, wire, hookRuns>>
  /\ UNCHANGED clientVars
  /\ UNCHANGED helperVars

\* the initiation of a requestData of part_002 is answered 200: #initiateRequest
\* returns and requestData calls #pollForConsent in the same run, which reads
\* the polling options of the params at that moment (part_002 95-98, 119-124:
\* `const startTime = Date.now()`), whatever else is in flight.  The model follows the poll of
\* one requestData call: the broker accepts one initiation
InitiationAccepted ==
  /\ pc = "idle"
  /\ \E i \in 1..Len(calls) :
       LET c == calls[i]
       IN /\ StepOne(c)
          /\ c.stage = "sent"
          /\ lastCall' = Returned(c)
          /\ calls' = Without(calls, i)
  /\ interval' \in IntervalInputs
  /\ timeout' \in TimeoutInputs
  /\ aborted' = FALSE
  /\ abortInfo' = NoAbort
  /\ start' = now
  /\ pc' = "started"
  /\ UNCHANGED <<now, loopTime, wakeAt, pending, log, starts, sleeps, events, result,
                 fetches, wire, hookRuns>>
  /\ UNCHANGED clientVars
  /\ UNCHANGED helperVars

----------------------------------------------------------------------------

Next ==
  \/ getRequestStatus
  \/ createDataRequest
  \/ submitRequesterSignature
  \/ getMyInstitution
  \/ getInstitutionById
  \/ getPublicKey
  \/ requestDataFromProvider
  \/ initiateRequest
  \/ requestData
  \/ InitiationAccepted
  \/ fetchFromProvider
  \/ Transmit
  \/ Settle
  \/ PollStart
  \/ PollEnter
  \/ QuerySend
  \/ QueryDone
  \/ SleepDone
  \/ Tick
  \/ Abort

Spec == Init /\ [][Next]_vars

\* the same client with a 'statusChanged' listener registered
ObserverSpec == ObserverInit /\ [][Next]_vars

\* weak fairness of Transmit, which is enabled exactly when a request is
\* queued: the microtask that runs the interceptor is eventually run
TransmitFair == []<>(~AnyIssued) \/ []<><<Transmit>>_vars

\* every queued request passes its interceptor, the first loop test runs,
\* each status query is sent and eventually completes, every timer
\* eventually fires, and the clocks advance
LiveSpec ==
  Spec /\ TransmitFair /\ WF_vars(PollEnter) /\ WF_vars(QuerySend)
       /\ WF_vars(QueryDone) /\ WF_vars(SleepDone) /\ WF_vars(Tick)

TypeOK ==
  /\ impl \in Impls
  /\ pc \in {"idle", "started", "inflight", "sleeping", "done"}
  /\ now \in 0..(MaxTime + Max(MaxInterval, 1))
  /\ loopTime \in {now, now + 1}
  /\ timeout \in TimeoutInputs
  /\ interval \in IntervalInputs
  /\ aborted \in BOOLEAN
  /\ pending \in {"none", "issued", "sent", "rejected"}
  /\ result.type \in {"none", "return", "throw"}
  /\ Len(fetches) <= 1
  /\ Len(calls) <= MaxInFlight

----------------------------------------------------------------------------
(* Vocabulary of the properties *)

Last(seq) == seq[Len(seq)]

Awaiting == Response(Data("AWAITING_CONSENT", Undefined, Undefined, Undefined))

AllAwaiting(seq) == \A i \in 1..Len(seq) : seq[i] = Awaiting

KnownStatuses ==
  {"APPROVED", "DENIED", "EXPIRED", "FAILED", "AWAITING_CONSENT", "INITIATED"}

\* the outcome code an error carries (index.ts passes it as the first
\* constructor argument, part_002 as the second)
ErrorCarries(e, code) == e.message = code \/ e.status = code

Raised(code) == result.type = "throw" /\ ErrorCarries(result.error, code)

Typed(e) == e.name \in {"RequestError", "TrustBrokerError"}

\* the guard of QueryDone never binds
QueriesBounded == Len(log) + (IF pc = "inflight" THEN 1 ELSE 0) <= MaxTimeout + 1

----------------------------------------------------------------------------
\* C1: every pollForConsent call that has started eventually returns or
\* raises, whatever the server answers and however the transport fails, given
\* that queries complete, timers fire and the clock advances.
C1_PollTerminates == (pc # "idle") ~> (pc = "done")

\* a session that went through two sleeps and ended
C1_Witness == pc = "done" /\ Len(sleeps) >= 2

\* C2: after N AWAITING_CONSENT answers and then APPROVED with endpoint and
\* token, the call has returned exactly that endpoint and token, having issued
\* N+1 queries and slept N times, each time for the polling interval.
C2_AwaitingThenApproved ==
  (/\ Len(log) >= 1
   /\ AllAwaiting(SubSeq(log, 1, Len(log) - 1))
   /\ Last(log).kind = "response"
   /\ Last(log).data.status = "APPROVED"
   /\ Last(log).data.providerEndpoint # Undefined
   /\ Last(log).data.accessToken # Undefined)
  => /\ pc = "done"
     /\ result.type = "return"
     /\ result.providerEndpoint = Last(log).data.providerEndpoint
     /\ result.accessToken = Last(log).data.accessToken
     /\ Len(starts) = Len(log)
     /\ Len(sleeps) = Len(log) - 1
     /\ \A i \in 1..Len(sleeps) : sleeps[i] = interval

\* two AWAITING_CONSENT answers, then the approval returned
C2_Witness ==
  /\ Len(log) = 3
  /\ AllAwaiting(SubSeq(log, 1, 2))
  /\ Len(sleeps) = 2
  /\ result.type = "return"
  /\ result.providerEndpoint = ApprovedEndpoint
  /\ result.accessToken = ApprovedToken

\* C3: no status query starts once the time since the start of the session
\* has reached timeoutMs; and a session that was never cancelled and saw only
\* AWAITING_CONSENT ends, when it ends, by raising TIMED_OUT.
C3_TimeoutRespected ==
  /\ \A i \in 1..Len(starts) : starts[i] - start < timeout
  /\ (pc = "done" /\ AllAwaiting(log) /\ abortInfo = NoAbort) => Raised("TIMED_OUT")

\* two AWAITING_CONSENT answers, then the deadline
C3_Witness ==
  /\ pc = "done"
  /\ Len(log) >= 2
  /\ AllAwaiting(log)
  /\ abortInfo = NoAbort
  /\ Raised("TIMED_OUT")

\* C4: when the abort signal is set during the inter-query sleep, the call
\* ends with ABORTED and has issued no query after the signal was set.
C4_AbortDuringSleep ==
  (pc = "done" /\ abortInfo.at = "sleeping")
  => (Raised("ABORTED") /\ Len(starts) = abortInfo.queries)

\* C5: whenever the abort signal is set at the top of a loop iteration (at the
\* start of the call or at the end of a sleep, for every timeoutMs), the call
\* ends there with ABORTED, never TIMED_OUT, and issues no query.
C5_AbortAtLoopTop ==
  [][(pc \in {"started", "sleeping"} /\ pc' # pc /\ aborted')
     => (/\ pc' = "done"
         /\ result'.type = "throw"
         /\ ErrorCarries(result'.error, "ABORTED")
         /\ ~ErrorCarries(result'.error, "TIMED_OUT")
         /\ starts' = starts)]_vars

\* C6: once a query has observed DENIED, EXPIRED or FAILED, the call has failed
\* with a typed error whose status is the server's status verbatim, with or
\* without a failureReason, without sleeping again.
C6_TerminalStatusVerbatim ==
  (/\ Len(log) >= 1
   /\ Last(log).kind = "response"
   /\ Last(log).data.status \in {"DENIED", "EXPIRED", "FAILED"})
  => /\ pc = "done"
     /\ result.type = "throw"
     /\ Typed(result.error)
     /\ result.error.status = Last(log).data.status
     /\ Len(sleeps) = Len(log) - 1

\* C7: APPROVED without providerEndpoint or without accessToken fails with
\* INVALID_RESPONSE, and no success value has an undefined field.
C7_ApprovedNeedsPayload ==
  /\ (/\ Len(log) >= 1
      /\ Last(log).kind = "response"
      /\ Last(log).data.status = "APPROVED"
      /\ (Last(log).data.providerEndpoint = Undefined
          \/ Last(log).data.accessToken = Undefined))
     => (pc = "done" /\ Raised("INVALID_RESPONSE"))
  /\ result.type = "return"
     => (result.providerEndpoint # Undefined /\ result.accessToken # Undefined)

\* C8: a status outside the known set fails the call at once with
\* UNKNOWN_STATUS; the poller does not sleep on it.
C8_UnknownStatusFatal ==
  (/\ Len(log) >= 1
   /\ Last(log).kind = "response"
   /\ Last(log).data.status \notin KnownStatuses)
  => /\ pc = "done"
     /\ Raised("UNKNOWN_STATUS")
     /\ Len(sleeps) = Len(log) - 1

Transient(o) == o.kind = "axios_network" \/ (o.kind = "axios_response" /\ o.http >= 500)
ClientFault(o) == o.kind = "axios_response" /\ o.http >= 400 /\ o.http < 500

\* C9: a connectivity failure or 5xx is followed by a sleep (the poll goes
\* on), a 4xx ends the poll with a typed error.
C9_TransientAbsorbed ==
  Len(log) >= 1 =>
    /\ Transient(Last(log)) => Len(sleeps) = Len(log)
    /\ ClientFault(Last(log))
       => (pc = "done" /\ result.type = "throw" /\ Typed(result.error)
           /\ Len(sleeps) = Len(log) - 1)

\* the PEM of the private key the client was constructed with
ClientPrivatePem == IF impl = "index" THEN privateKey.pem ELSE privateKey

\* C10: a transmitted broker call with a body carries a Signature header that
\* verifies against that body under the client's public key; a transmitted
\* call without a body carries no Signature header.
C10_SignatureIffBody ==
  wire.method # "none" =>
    IF wire.data.t # "undefined"
    THEN /\ "Signature" \in DOMAIN wire.headers
         /\ verifySignature(wire.data, wire.headers["Signature"],
                            PublicOf(ClientPrivatePem))
    ELSE "Signature" \notin DOMAIN wire.headers

----------------------------------------------------------------------------
(* The identity header *)

\* the revisions that install the request interceptor
HookImpls == {"index_bypass", "index", "part_001"}

\* C11: in the revisions with the request interceptor, every request that
\* reaches the wire, with a body or without and in every poll iteration,
\* carries a Client-Id header equal to the identity given at construction, and
\* the interceptor ran exactly once for that call
C11_ClientIdOnEveryCall ==
  (impl \in HookImpls /\ wire.method # "none") =>
    /\ "Client-Id" \in DOMAIN wire.headers
    /\ wire.headers["Client-Id"] = processEnv.id
    /\ hookRuns = 1

\* the second status query of a polling session is on the wire with the header
C11_Witness ==
  /\ impl = "index"
  /\ pc = "inflight"
  /\ Len(starts) >= 2
  /\ wire.method = "GET"
  /\ wire.headers["Client-Id"] = processEnv.id
  /\ hookRuns = 1

----------------------------------------------------------------------------
(* Signing failures *)

\* C12: a call whose body could not be signed is not transmitted and fails
\* with the signing error kind of the taxonomy (class SignatureError of
\* lib/errors.ts), not with any other kind
C12_SigningFailureTyped ==
  (lastCall.failure = "thrown") =>
    /\ ~lastCall.sent
    /\ lastCall.status = "threw"
    /\ lastCall.error.name \in {"SigningError", "SignatureError"}

----------------------------------------------------------------------------
(* The signing helpers applied on their own: every revision of             *)
(* signPayload / verifySignature and the client's own sign and verify      *)
(* methods.                                                                *)

\* verifier.verify(key, signature, "base64") throws unless key parses as a key
VerifyThrows(publicKeyPem) == publicKeyPem \notin PublicKeyPems

\* text that is not base64: Buffer decodes it leniently, nothing verifies it
MalformedSignature == cryptoSign("", "not-base64")

Verdict(b) == IF b THEN "true" ELSE "false"

\* verifySignature of src/src/lib/utilits.ts 66-78: no try block
verifySignatureOutcome(payload, signature, publicKeyPem) ==
  IF VerifyThrows(publicKeyPem) THEN "threw"
  ELSE Verdict(verifySignature(payload, signature, publicKeyPem))

\* verifySignature of part_001 42-56: the catch block returns false
verifySignatureCaught(payload, signature, publicKey) ==
  IF VerifyThrows(publicKey) THEN "false"
  ELSE Verdict(verifySignature(payload, signature, publicKey))

\* Object.keys(payload).sort() of part_000 41 and 54: the property names of
\* the top level (the indices, for an array; none is needed for a string)
PropertyList(payload) ==
  CASE payload.t = "obj" ->
         LET s == SortEntries(payload.v) IN [i \in 1..Len(s) |-> s[i][1]]
    [] payload.t = "arr" -> [i \in 1..Len(payload.v) |-> ToString(i - 1)]
    [] OTHER -> <<>>

\* JSON.stringify(value, list): at every depth an object keeps only the
\* properties named in the list, in the order of the list
RECURSIVE JsonStringifyListed(_, _)
JsonStringifyListed(x, list) ==
  CASE x.t = "arr" ->
         "[" \o Join([i \in 1..Len(x.v) |-> JsonStringifyListed(x.v[i], list)], ",") \o "]"
    [] x.t = "obj" ->
         LET kept == SelectSeq(list, LAMBDA k : HasKey(x.v, k))
         IN "{" \o Join([i \in 1..Len(kept) |->
                          Quote(kept[i]) \o ":"
                            \o JsonStringifyListed(ValueOf(x.v, kept[i]), list)], ",")
                \o "}"
    [] OTHER -> JsonStringify(x)

\* signPayload of part_000 40-46
signPayloadListed(payload, privateKeyPem) ==
  IF SignThrows(privateKeyPem)
  THEN [ok |-> FALSE, signature |-> cryptoSign("", "none")]
  ELSE [ok |-> TRUE,
        signature |-> cryptoSign(JsonStringifyListed(payload, PropertyList(payload)),
                                 privateKeyPem)]

\* verifySignature of part_000 53-60: the key arrives base64-encoded
verifySignatureListed(payload, signature, publicKey) ==
  LET publicKeyPem == Base64Decode(publicKey)
  IN IF VerifyThrows(publicKeyPem) THEN "threw"
     ELSE Verdict(cryptoVerify(JsonStringifyListed(payload, PropertyList(payload)),
                               signature, publicKeyPem))

\* part_001 304 and 316: typeof payload === "string" ? payload : JSON.stringify(payload)
Serialized(payload) == IF payload.t = "str" THEN payload.v ELSE JsonStringify(payload)

\* TrustBrokerClient.signPayload of part_001 303-306
clientSignPayload(payload, key) == signPayload(Str(Serialized(payload)), key)

\* TrustBrokerClient.verifyPayloadSignature of part_001 311-319
clientVerifyPayloadSignature(payload, signature, publicKey) ==
  verifySignatureCaught(Str(Serialized(payload)), signature, publicKey)

\* index.ts 214-217 and 219-226: the placeholders of bypass mode
bypassSignPayload(payload) ==
  [ok |-> TRUE, signature |-> cryptoSign("dummy-signature-bypassed", "none")]
bypassVerifyPayloadSignature(payload, signature, publicKey) == "true"

HelperRevisions == {"utilits", "part_000", "part_001", "part_001_client", "index_bypass_client"}

Sign(rev, payload, key) ==
  CASE rev \in {"utilits", "part_001"} -> signPayload(payload, key)
    [] rev = "part_000" -> signPayloadListed(payload, key)
    [] rev = "part_001_client" -> clientSignPayload(payload, key)
    [] rev = "index_bypass_client" -> bypassSignPayload(payload)

\* the public key is handed over in the encoding the revision takes
Verify(rev, payload, signature, publicKeyPem) ==
  CASE rev = "utilits" -> verifySignatureOutcome(payload, signature, publicKeyPem)
    [] rev = "part_001" -> verifySignatureCaught(payload, signature, publicKeyPem)
    [] rev = "part_000" -> verifySignatureListed(payload, signature, "B64_" \o publicKeyPem)
    [] rev = "part_001_client" -> clientVerifyPayloadSignature(payload, signature, publicKeyPem)
    [] rev = "index_bypass_client" ->
         bypassVerifyPayloadSignature(payload, signature, publicKeyPem)

\* payloads the helpers are applied to
Payloads ==
  << Obj(<< <<"a", Num(1)>>, <<"b", Num(2)>>, <<"c", Num(3)>> >>),
     Obj(<< <<"a", Num(1)>>, <<"b", Num(2)>>, <<"c", Num(4)>> >>),
     Obj(<< <<"a\":1,\"b", Num(2)>>, <<"c", Num(3)>> >>),
     Obj(<< <<"a", Obj(<< <<"c", Num(1)>>, <<"d", Num(2)>> >>)>>,
            <<"b", Arr(<<Num(1), Num(2)>>)>> >>),
     Obj(<< <<"a", Obj(<< <<"c", Num(1)>>, <<"d", Num(3)>> >>)>>,
            <<"b", Arr(<<Num(1), Num(2)>>)>> >>),
     Obj(<< <<"a", Obj(<< <<"c", Num(1)>>, <<"b", Num(2)>> >>)>>,
            <<"b", Arr(<<Num(1), Num(2)>>)>> >>),
     Obj(<< <<"a", Obj(<< <<"c", Num(1)>>, <<"d", Num(2)>> >>)>>,
            <<"b", Arr(<<Num(2), Num(1)>>)>> >>),
     Arr(<< Obj(<< <<"a", Num(1)>>, <<"b", Num(2)>> >>), Str("x") >>),
     Str("plain text"),
     Str("{\"a\":1,\"b\":2,\"c\":3}"),
     Obj(<< <<"a", Str("x\",\"b\":\"y")>> >>),
     Obj(<< <<"a", Str("x")>>, <<"b", Str("y")>> >>) >>

\* the orders in which a caller can insert up to three properties
InsertionOrders ==
  << <<1, 2, 3>>, <<1, 3, 2>>, <<2, 1, 3>>, <<2, 3, 1>>, <<3, 1, 2>>, <<3, 2, 1>> >>

\* the same logical value built again: the properties of the top-level object
\* inserted in order k1, those of every deeper object in order k2
RECURSIVE Rebuilt(_, _, _)
Rebuilt(x, k1, k2) ==
  CASE x.t = "arr" -> Arr([i \in 1..Len(x.v) |-> Rebuilt(x.v[i], k2, k2)])
    [] x.t = "obj" ->
         LET order == SelectSeq(InsertionOrders[k1], LAMBDA n : n <= Len(x.v))
         IN Obj([i \in 1..Len(x.v) |->
                   <<x.v[order[i]][1], Rebuilt(x.v[order[i]][2], k2, k2)>>])
    [] OTHER -> x

\* two values are the same logical payload: same kind, same scalar, same
\* elements in the same order, same properties whatever their order
RECURSIVE SameLogical(_, _)
SameLogical(x, y) ==
  /\ x.t = y.t
  /\ CASE x.t = "arr" ->
            /\ Len(x.v) = Len(y.v)
            /\ \A i \in 1..Len(x.v) : SameLogical(x.v[i], y.v[i])
       [] x.t = "obj" ->
            /\ Len(x.v) = Len(y.v)
            /\ \A i \in 1..Len(x.v) :
                 /\ HasKey(y.v, x.v[i][1])
                 /\ SameLogical(x.v[i][2], ValueOf(y.v, x.v[i][1]))
       [] OTHER -> x.v = y.v

PrivInputs == PrivateKeyPems
PubInputs == PublicKeyPems \cup {"not-a-key"}
SignatureInputs == {"made", "malformed"}

HelperInputs ==
  [fn : {"none"}, i : 1..Len(Payloads), j : 1..Len(Payloads),
   k1 : 1..Len(InsertionOrders), k2 : 1..Len(InsertionOrders),
   priv : PrivInputs, pub : PubInputs, sig : SignatureInputs]

\* no client is constructed; the inputs of the helpers are drawn
HelperInit ==
  /\ impl = "none"
  /\ processEnv = [id |-> Undefined, pub |-> Undefined, priv |-> Undefined]
  /\ ctor = NoError
  /\ clientId = Undefined
  /\ privateKey = Undefined
  /\ listener = "none"
  /\ wire = NoRequest
  /\ calls = <<>>
  /\ lastCall = NoCall
  /\ hookRuns = 0
  /\ pc = "idle"
  /\ now = 0
  /\ loopTime = 0
  /\ start = 0
  /\ interval = 0
  /\ timeout = 0
  /\ aborted = FALSE
  /\ wakeAt = 0
  /\ pending = "none"
  /\ log = <<>>
  /\ starts = <<>>
  /\ sleeps = <<>>
  /\ events = <<>>
  /\ abortInfo = NoAbort
  /\ result = NoResult
  /\ fetches = <<>>
  /\ pin \in HelperInputs
  /\ pout = NoOutput

\* the first payload and the second one rebuilt
First == Payloads[pin.i]
Second == Rebuilt(Payloads[pin.j], pin.k1, pin.k2)

\* canonicalizeBody applied to both payloads
Canonicalize ==
  /\ pin.fn = "none"
  /\ pin' = [pin EXCEPT !.fn = "canonicalizeBody"]
  /\ pout' = [a |-> canonicalizeBody(First), b |-> canonicalizeBody(Second),
              signed |-> "none", verdict |-> "none"]
  /\ UNCHANGED <<clientVars, wire, calls, lastCall, hookRuns, pollVars>>

\* one revision signs the first payload; the same revision verifies the
\* second payload against that signature (or against text that is no
\* signature) with the public key given
SignThenVerify ==
  /\ pin.fn = "none"
  /\ \E rev \in HelperRevisions :
       LET s == Sign(rev, First, pin.priv)
           signature == IF pin.sig = "made" THEN s.signature ELSE MalformedSignature
       IN /\ pin' = [pin EXCEPT !.fn = rev]
          /\ pout' = [a |-> s.signature.text, b |-> "",
                      signed |-> IF s.ok THEN "ok" ELSE "threw",
                      verdict |-> IF s.ok THEN Verify(rev, Second, signature, pin.pub)
                                  ELSE "none"]
  /\ UNCHANGED <<clientVars, wire, calls, lastCall, hookRuns, pollVars>>

HelperNext == Canonicalize \/ SignThenVerify

HelperSpec == HelperInit /\ [][HelperNext]_vars

----------------------------------------------------------------------------
(* Canonical form *)

\* C13: canonicalizeBody gives one string for a payload whatever the order its
\* properties were inserted in, at the top level, in nested objects and in
\* objects inside arrays; the properties appear in sorted order and the
\* elements of an array in their own order
C13_CanonicalOrderIndependent ==
  (pin.fn = "canonicalizeBody" /\ pin.i = pin.j) =>
    /\ pout.a = pout.b
    /\ pin.j = 4 => pout.b = "{\"a\":{\"c\":1,\"d\":2},\"b\":[1,2]}"
    /\ pin.j = 7 => pout.b = "{\"a\":{\"c\":1,\"d\":2},\"b\":[2,1]}"
    /\ pin.j = 8 => pout.b = "[{\"a\":1,\"b\":2},\"x\"]"

\* a nested payload rebuilt with both levels in another insertion order
C13_Witness ==
  /\ pin.fn = "canonicalizeBody"
  /\ pin.i = 4
  /\ pin.j = 4
  /\ pin.k1 = 3
  /\ pin.k2 = 3
  /\ pout.a = pout.b

\* C14: canonicalizeBody gives different strings for different logical
\* payloads (a property name, a value or the order of an array differs), also
\* when property names or string values hold quotation marks, colons, commas
\* or braces
C14_CanonicalInjective ==
  (pin.fn = "canonicalizeBody" /\ ~SameLogical(First, Second)) => pout.a # pout.b

----------------------------------------------------------------------------
(* Signing and verification *)

\* C15: in every revision, a signature made over a payload with the private
\* key of a pair verifies against the same logical payload, rebuilt in any
\* insertion order, with the public key of the pair
C15_RoundTrip ==
  (/\ pin.fn \in HelperRevisions
   /\ pin.sig = "made"
   /\ pin.pub = PublicOf(pin.priv)
   /\ SameLogical(First, Second)) => pout.verdict = "true"

\* C16: in every revision, a signature made over one payload does not verify
\* against a different logical payload (a nested property or value included),
\* nor with the public key of another pair
C16_TamperRejected ==
  (/\ pin.fn \in HelperRevisions
   /\ pin.sig = "made"
   /\ pin.pub \in PublicKeyPems
   /\ ~SameLogical(First, Second) \/ pin.pub # PublicOf(pin.priv))
     => pout.verdict = "false"

\* C17: verifySignature answers false, and raises nothing, when the signature
\* does not match, when the signature is not base64 and when the public key
\* is not a key
C17_VerifyNeverRaises ==
  (/\ pin.fn \in {"utilits", "part_000", "part_001"}
   /\ \/ pin.sig = "malformed"
      \/ pin.pub = "not-a-key"
      \/ pin.pub # PublicOf(pin.priv)) => pout.verdict = "false"

----------------------------------------------------------------------------
(* The error taxonomy *)

\* the error classes of lib/errors.ts and TrustBrokerError of part_002
Taxonomy ==
  {"InitializationError", "AuthError", "RequestError", "SignatureError", "TrustBrokerError"}

\* C18: whatever the transport does, a public operation that fails raises an
\* error of the typed taxonomy, never a plain Error
C18_TypedFailuresOnly ==
  /\ lastCall.status = "threw" => lastCall.error.name \in Taxonomy
  /\ result.type = "throw" => result.error.name \in Taxonomy

\* C19: a RequestError has its stable code in the status field: API_ERROR for
\* an error response of the broker, PROVIDER_ERROR for one of the provider,
\* ABORTED for a cancelled poll, TIMED_OUT for one that passed its deadline
C19_StableCodeInStatus ==
  /\ (/\ lastCall.status = "threw"
      /\ lastCall.error.name = "RequestError"
      /\ lastCall.failure = "axios_response") =>
        lastCall.error.status =
          (IF lastCall.op \in {"requestDataFromProvider", "fetchFromProvider"}
           THEN "PROVIDER_ERROR" ELSE "API_ERROR")
  /\ (result.type = "throw" /\ result.error.name = "RequestError") =>
        /\ ErrorCarries(result.error, "ABORTED") => result.error.status = "ABORTED"
        /\ ErrorCarries(result.error, "TIMED_OUT") => result.error.status = "TIMED_OUT"
        /\ (Len(log) > 0 /\ Last(log).kind = "axios_response") =>
             result.error.status = "API_ERROR"

\* the key material a revision reads from the environment parses as keys
KeyMaterialUsable ==
  CASE impl = "index" ->
         /\ processEnv.priv \in PrivateKeyPems
         /\ processEnv.pub \in PublicKeyPems \cup PrivateKeyPems
    [] impl = "part_001" -> Base64Decode(processEnv.priv) \in PrivateKeyPems
    [] OTHER -> TRUE

\* C20: in the revisions that sign, construction without a client identity,
\* without a key or with a key that does not parse fails with
\* InitializationError, and such a client never makes an outbound call
C20_BadCredentialsRejected ==
  (/\ impl \in {"index", "part_001"}
   /\ \/ processEnv.id = Undefined
      \/ processEnv.priv = Undefined
      \/ ~KeyMaterialUsable) =>
    /\ ctor.name = "InitializationError"
    /\ lastCall.op = "none"
    /\ wire.method = "none"

----------------------------------------------------------------------------
(* Duration and pacing of a poll session *)

\* the earliest reading of Date.now() at which a timer due at event-loop time
\* w can fire: the event loop's clock is at most one millisecond ahead
EarliestWake(w) == w - 1

\* C21: a session lasts at most timeoutMs plus one query round-trip: the
\* sleep begun when a status query completes ends no later than the deadline
\* plus the round-trip of that query (nothing ends a session before its
\* pending sleep is over)
C21_SleepWithinDeadline ==
  [][(pc = "inflight" /\ pc' = "sleeping")
       => EarliestWake(wakeAt') - start <= timeout + (now - Last(starts))]_vars

\* status queries of the session that were transmitted and not yet answered
Outstanding ==
  Len(starts) - Cardinality({i \in 1..Len(log) : log[i].kind # "thrown"})

\* C22: at most one status query of a session is outstanding at any moment,
\* and between two consecutive queries there is exactly one sleep, of the
\* polling interval, that has run to its end (on the clock of Date.now() a
\* sleep of ms milliseconds can read one millisecond short)
C22_SequentialAndPaced ==
  /\ Outstanding \in {0, 1}
  /\ Outstanding = 1 <=> (pc = "inflight" /\ pending = "sent")
  /\ Len(starts) >= 1 => Len(sleeps) \in {Len(starts) - 1, Len(starts)}
  /\ pc = "inflight" => Len(sleeps) = Len(log)
  /\ \A i \in 1..Len(sleeps) : sleeps[i] = interval
  /\ \A i \in 1..(Len(starts) - 1) : starts[i + 1] >= starts[i] + Max(interval, 1) - 1

\* the third query of a session is outstanding, two sleeps of 1 behind it,
\* the first of which read no millisecond elapsed
C22_Witness ==
  /\ pc = "inflight"
  /\ pending = "sent"
  /\ Len(starts) = 3
  /\ Len(sleeps) = 2
  /\ interval = 1
  /\ starts[2] = starts[1]
  /\ starts[3] = starts[2] + 1

----------------------------------------------------------------------------
(* Cancellation against a terminal status; the success value *)

\* the status query that was in flight when the abort signal was set
AbortedIndex == IF abortInfo.at = "issued" THEN abortInfo.queries + 1 ELSE abortInfo.queries
AbortedQuery == log[AbortedIndex]

\* C23: when the abort signal is set while a status query is in flight and
\* that query is answered APPROVED, DENIED, EXPIRED or FAILED, the call ends
\* with that answer (the approval returned, the terminal status raised), not
\* with ABORTED
C23_TerminalBeatsAbort ==
  (/\ impl = "index"
   /\ abortInfo.at \in {"issued", "inflight"}
   /\ AbortedIndex >= 1
   /\ Len(log) >= AbortedIndex
   /\ AbortedQuery.kind = "response"
   /\ AbortedQuery.data.status \in {"APPROVED", "DENIED", "EXPIRED", "FAILED"}) =>
    /\ pc = "done"
    /\ Len(log) = AbortedIndex
    /\ ~Raised("ABORTED")
    /\ IF AbortedQuery.data.status = "APPROVED"
       THEN /\ result.type = "return"
            /\ result.providerEndpoint = AbortedQuery.data.providerEndpoint
            /\ result.accessToken = AbortedQuery.data.accessToken
       ELSE Raised(AbortedQuery.data.status)

\* the signal was set during the second query, which was answered APPROVED,
\* and the approval was returned
C23_Witness ==
  /\ impl = "index"
  /\ abortInfo.at = "inflight"
  /\ abortInfo.queries = 2
  /\ Len(log) = 2
  /\ log[2].kind = "response"
  /\ log[2].data.status = "APPROVED"
  /\ result.type = "return"
  /\ result.accessToken = ApprovedToken

\* C24: a call that returns a success value has read APPROVED in its last
\* status query, and returns the providerEndpoint and the accessToken of that
\* very response; no session whose last answer is an in-flight, a
\* terminal-negative or an unrecognized status, or a failure, ends in success
C24_SuccessOnlyOnApproved ==
  result.type = "return" =>
    /\ pc = "done"
    /\ Len(log) >= 1
    /\ Len(log) = Len(starts)
    /\ Last(log).kind = "response"
    /\ Last(log).data.status = "APPROVED"
    /\ result.providerEndpoint = Last(log).data.providerEndpoint
    /\ result.accessToken = Last(log).data.accessToken

\* INITIATED, then APPROVED: the second answer's endpoint and token returned
C24_Witness ==
  /\ impl = "part_002"
  /\ Len(log) = 2
  /\ log[1].data.status = "INITIATED"
  /\ log[2].data.status = "APPROVED"
  /\ result.type = "return"
  /\ result.providerEndpoint = ApprovedEndpoint
  /\ result.accessToken = ApprovedToken

----------------------------------------------------------------------------
(* The status observer *)

\* C25: in index.ts every status query that is answered emits 'statusChanged'
\* exactly once, with the requestId and the status of the answer, in the step
\* that reads the answer (a failed query emits nothing); and the iteration
\* ends as it would with no listener registered, whatever the listener does
C25_ObserverDecoupled ==
  [][(impl = "index" /\ pc = "inflight" /\ pc' # "inflight") =>
       LET o == Last(log')
           quiet == BodyIndexWith("none", o)
       IN /\ events' = IF o.kind = "response"
                       THEN Append(events, [name |-> "statusChanged",
                                            requestId |-> RequestId,
                                            status |-> o.data.status,
                                            endpoint |-> Undefined])
                       ELSE events
          /\ pc' = IF quiet.next = "done" THEN "done" ELSE "sleeping"
          /\ result' = quiet.result]_vars

----------------------------------------------------------------------------
(* Signed text *)

\* the key pair matches and the signature handed over is the one made
GenuineSignature ==
  /\ pout.signed = "ok"
  /\ pin.sig = "made"
  /\ pin.pub = PublicOf(pin.priv)

\* C26: the text signPayload signs for a structured payload is
\* canonicalizeBody(payload) and verifySignature checks a payload against that
\* same text (it accepts a genuine signature exactly when the canonical forms
\* are equal); a raw string is signed unchanged; the client's public
\* signPayload method signs the text the interceptor's signPayload call signs
\* for the same payload
C26_SignsCanonicalForm ==
  /\ (pin.fn \in {"utilits", "part_001"} /\ pout.signed = "ok") =>
       /\ First.t # "str" => pout.a = canonicalizeBody(First)
       /\ First.t = "str" => pout.a = First.v
       /\ (GenuineSignature /\ First.t # "str" /\ Second.t # "str") =>
            (pout.verdict = "true" <=> canonicalizeBody(Second) = canonicalizeBody(First))
  /\ (pin.fn = "part_001_client" /\ pout.signed = "ok") =>
       pout.a = signPayload(First, pin.priv).signature.text

----------------------------------------------------------------------------
(* requestData *)

\* C27: the three steps of a requestData call of part_002 run in order and
\* the provider is contacted at most once per call: the poll starts only in
\* the step in which the call's own initiation is answered with a success, a
\* call whose initiation failed ends without a status query or a provider
\* call, the provider is contacted only in the step in which the poll returns
\* on an APPROVED answer carrying both providerEndpoint and accessToken, with
\* exactly those two values, and never when the poll failed; other
\* requestData calls in flight, or failing later, change none of this
C27_ProviderAfterApproval ==
  /\ [](impl = "part_002" =>
         /\ Len(fetches) <= 1
         /\ pc = "idle" => (starts = <<>> /\ log = <<>> /\ fetches = <<>>)
         /\ result.type = "throw" => fetches = <<>>
         /\ fetches # <<>> =>
              /\ pc = "done"
              /\ result.type = "return"
              /\ Len(log) >= 1
              /\ Len(starts) = Len(log)
              /\ Last(log).kind = "response"
              /\ Last(log).data.status = "APPROVED"
              /\ Last(log).data.providerEndpoint # Undefined
              /\ Last(log).data.accessToken # Undefined
              /\ fetches[1] = [endpoint |-> Last(log).data.providerEndpoint,
                               token |-> Last(log).data.accessToken])
  /\ [][impl = "part_002" =>
          /\ (pc = "idle" /\ pc' # "idle") =>
               /\ \E i \in 1..Len(calls) :
                    /\ calls[i].op = "initiateRequest"
                    /\ calls[i].stage = "sent"
                    /\ calls' = Without(calls, i)
               /\ lastCall'.op = "initiateRequest"
               /\ lastCall'.status = "returned"
               /\ starts' = <<>>
               /\ fetches' = <<>>
          /\ (/\ Len(calls') < Len(calls)
              /\ lastCall'.op = "initiateRequest"
              /\ lastCall'.status = "threw") =>
               UNCHANGED <<pc, pending, starts, log, result, fetches>>
          /\ starts' # starts => (pc = "inflight" /\ fetches = <<>>)
          /\ fetches' # fetches =>
               /\ fetches = <<>>
               /\ starts # <<>>
               /\ pc = "inflight"
               /\ pc' = "done"
               /\ log' # log
               /\ result'.type = "return"]_vars

\* two requestData calls were in flight: the initiation of one was accepted,
\* that of the other failed while the first call was polling, and the first
\* call contacted the provider after a poll of two queries
C27_Witness ==
  /\ impl = "part_002"
  /\ lastCall.op = "initiateRequest"
  /\ lastCall.status = "threw"
  /\ lastCall.failure = "axios_response"
  /\ Len(log) = 2
  /\ fetches = <<[endpoint |-> ApprovedEndpoint, token |-> ApprovedToken]>>
  /\ Len(calls) = 1
  /\ calls[1].op = "fetchFromProvider"
====
